---- MODULE Spec2Model ----
(***************************************************************************)
(* A model of npdl/optimizers.py: the optimizer classes, their update      *)
(* rules, gradient clipping (npdl_clip) and the registry function get.     *)
(*                                                                         *)
(* Numbers.  A float is a fixed-point integer counted in thousandths       *)
(* (1.0 is 1000); only epsilon is counted in millionths (1e-6 is 1).  A    *)
(* product or quotient is rounded to the nearest unit, as a float          *)
(* operation rounds to the nearest representable value.                    *)
(*                                                                         *)
(* Objects.  An optimizer is a record holding its class name and its       *)
(* instance attributes; None is the empty tuple and a list is Some(list).  *)
(* A numpy array is a tuple of numbers.  The arrays an optimizer keeps     *)
(* (velocity, cache) live in a heap and are held by address, so that an    *)
(* in-place operation (+=) is seen through every reference to the array.   *)
(***************************************************************************)
EXTENDS Integers, Sequences, FiniteSets

VARIABLES
    opts,      \* slot -> the optimizer object living there, or NoOpt
    heap,      \* address -> the array stored there, or Free
    params,    \* slot -> the parameter arrays of the model trained by that optimizer
    grads,     \* the caller's gradient list of the last update call, as the call left it
    gradsIn,   \* history: the same list as it was when the call was made
    used,      \* history: per processed parameter, the gradient operand of the update formula
    hist,      \* history: slot -> the update calls made on that optimizer (a copy inherits them)
    made,      \* history: slot -> the optimizer as it was constructed or returned by get
    nsteps,    \* number of update calls made so far
    call       \* the last operation: its name, target slot, argument and outcome

vars == <<opts, heap, params, grads, gradsIn, used, hist, made, nsteps, call>>

(***************************************************************************)
(* Bounds and inputs                                                       *)
(***************************************************************************)
MaxOpts == 2
MaxSteps == 2

Milli == 10 * 100
Micro == Milli * Milli

\* The caller's parameter list at the start of training: two arrays holding 1.0.
InitialParams == << <<1000>>, <<1000>> >>
\* The update calls a training loop makes: how many of its parameter arrays it
\* passes, and the gradient arrays (1.0, 2.0, -2.0) it passes with them.  The
\* last two pass lists of different lengths.
Calls ==
    { [np |-> 2, gs |-> << <<1000>>, <<-2000>> >>],
      [np |-> 2, gs |-> << <<2000>>, <<1000>> >>],
      [np |-> 2, gs |-> << <<-2000>> >>],
      [np |-> 1, gs |-> << <<1000>>, <<2000>> >>] }
\* Constructor arguments tried besides the defaults.
LrValues == {1, 100}
ClipValues == {-1000, 0, 1000}

Slots == 1..MaxOpts
MaxAddr == MaxOpts * Len(InitialParams)

None == <<>>
Some(x) == <<x>>
NoOpt == [cls |-> "NoOpt"]
Free == <<>>

Min(a, b) == IF a < b THEN a ELSE b
Abs(x) == IF x < 0 THEN -x ELSE x

(***************************************************************************)
(* Float and numpy arithmetic                                              *)
(***************************************************************************)
\* a / b rounded to the nearest integer, halves away from zero (b > 0)
Div(a, b) == IF a >= 0 THEN (2 * a + b) \div (2 * b) ELSE -((2 * (-a) + b) \div (2 * b))

RECURSIVE SqrtIter(_, _, _)
SqrtIter(x, lo, hi) ==
    IF lo = hi THEN lo
    ELSE LET mid == (lo + hi + 1) \div 2
         IN  IF mid * mid <= x THEN SqrtIter(x, mid, hi) ELSE SqrtIter(x, lo, mid - 1)

\* the largest r with r * r <= x
Isqrt(x) == SqrtIter(x, 0, 46340)

\* scalar * array, array + array, array - array, elementwise
Scale(k, a) == [i \in DOMAIN a |-> Div(k * a[i], Milli)]
Add(a, b) == [i \in DOMAIN a |-> a[i] + b[i]]
Sub(a, b) == [i \in DOMAIN a |-> a[i] - b[i]]

\* np.power(g, 2)
np_power2(g) == [i \in DOMAIN g |-> Div(g[i] * g[i], Milli)]

\* np.sqrt(c), in thousandths
np_sqrt(c) == [i \in DOMAIN c |-> Isqrt(c[i] * Milli)]

\* np.clip(grad, lo, hi): a new array, the argument is left alone
np_clip(grad, lo, hi) ==
    [i \in DOMAIN grad |-> IF grad[i] < lo THEN lo ELSE IF grad[i] > hi THEN hi ELSE grad[i]]

\* _zero(shape): a new array of zeros (npdl.initializations)
_zero(shape) == [i \in 1..shape |-> 0]

shape(a) == Len(a)

(***************************************************************************)
(* Constructors                                                            *)
(***************************************************************************)
DefaultLr == 1
DefaultClip == -1000
DefaultMomentum == 900
DefaultEpsilon == 1

Optimizer__init__(cls, lr, clip) == [cls |-> cls, lr |-> lr, clip |-> clip]

SGD(lr, clip) == Optimizer__init__("SGD", lr, clip)

Momentum__init__(cls, momentum, lr, clip) ==
    [cls |-> cls, lr |-> lr, clip |-> clip, momentum |-> momentum, velocity |-> None]

Momentum(momentum, lr, clip) == Momentum__init__("Momentum", momentum, lr, clip)

NesterovMomentum(momentum, lr, clip) == Momentum__init__("NesterovMomentum", momentum, lr, clip)

Adagrad(epsilon, lr, clip) ==
    [cls |-> "Adagrad", lr |-> lr, clip |-> clip, epsilon |-> epsilon, cache |-> None]

RMSprop(lr, clip) == Optimizer__init__("RMSprop", lr, clip)
Adadelta(lr, clip) == Optimizer__init__("Adadelta", lr, clip)
Adam(lr, clip) == Optimizer__init__("Adam", lr, clip)
Adamax(lr, clip) == Optimizer__init__("Adamax", lr, clip)

OptimizerClasses ==
    {"SGD", "Momentum", "NesterovMomentum", "Adagrad", "RMSprop", "Adadelta", "Adam", "Adamax"}

\* cls(lr=lr, clip=clip), the other arguments at their defaults
Construct(cls, lr, clip) ==
    CASE cls = "SGD" -> SGD(lr, clip)
      [] cls = "Momentum" -> Momentum(DefaultMomentum, lr, clip)
      [] cls = "NesterovMomentum" -> NesterovMomentum(DefaultMomentum, lr, clip)
      [] cls = "Adagrad" -> Adagrad(DefaultEpsilon, lr, clip)
      [] cls = "RMSprop" -> RMSprop(lr, clip)
      [] cls = "Adadelta" -> Adadelta(lr, clip)
      [] cls = "Adam" -> Adam(lr, clip)
      [] cls = "Adamax" -> Adamax(lr, clip)

(***************************************************************************)
(* Gradient clipping                                                       *)
(***************************************************************************)
\* npdl_clip bounding the argument array itself (np.clip with out=grad)
npdl_clip_inplace(grad, boundary) ==
    IF boundary > 0
    THEN [ret |-> np_clip(grad, -boundary, boundary), grad |-> np_clip(grad, -boundary, boundary)]
    ELSE [ret |-> grad, grad |-> grad]

\* npdl_clip(grad, boundary): ret is the value returned, grad the argument
\* array as the call leaves it.
npdl_clip(grad, boundary) ==
    IF boundary > 0
    THEN [ret |-> np_clip(grad, -boundary, boundary), grad |-> grad]
    ELSE [ret |-> grad, grad |-> grad]

(***************************************************************************)
(* Update rules.  Each takes the optimizer, the two lists of the call and  *)
(* the heap, and returns the exception raised ("" for none) and all four   *)
(* as the call leaves them, with the gradient operands it used.  zip stops *)
(* at the shortest of its arguments.                                       *)
(***************************************************************************)
\* the n lowest unused addresses of heap h
Fresh(h, n) == [i \in 1..n |-> Cardinality({a \in DOMAIN h : h[a] # Free}) + i]

\* heap h with the arrays as stored at the addresses ads
Store(h, ads, as) ==
    [a \in DOMAIN h |-> IF \E i \in DOMAIN ads : ads[i] = a
                        THEN as[CHOOSE i \in DOMAIN ads : ads[i] = a]
                        ELSE h[a]]

Optimizer_update(self, ps, gs, h) ==
    [exc |-> "NotImplementedError", self |-> self, params |-> ps, grads |-> gs,
     heap |-> h, used |-> <<>>]

\* SGD.update with the gradient used as passed, npdl_clip left out
SGD_update_unclipped(self, ps, gs, h) ==
    LET n == Min(Len(ps), Len(gs))
    IN  [exc |-> "",
         self |-> self,
         params |-> [i \in DOMAIN ps |->
                        IF i <= n THEN Sub(ps[i], Scale(self.lr, gs[i])) ELSE ps[i]],
         grads |-> gs,
         heap |-> h,
         used |-> SubSeq(gs, 1, n)]

SGD_update(self, ps, gs, h) ==
    LET n == Min(Len(ps), Len(gs))
        clipped == [i \in 1..n |-> npdl_clip(gs[i], self.clip)]
    IN  [exc |-> "",
         self |-> self,
         params |-> [i \in DOMAIN ps |->
                        IF i <= n THEN Sub(ps[i], Scale(self.lr, clipped[i].ret)) ELSE ps[i]],
         grads |-> [i \in DOMAIN gs |-> IF i <= n THEN clipped[i].grad ELSE gs[i]],
         heap |-> h,
         used |-> [i \in 1..n |-> clipped[i].ret]]

Momentum_update(self, ps, gs, h) ==
    LET init == self.velocity = None
        ads == IF init THEN Fresh(h, Len(ps)) ELSE self.velocity[1]
        h1 == IF init THEN Store(h, ads, [i \in DOMAIN ps |-> _zero(shape(ps[i]))]) ELSE h
        n == Min(Len(ads), Min(Len(ps), Len(gs)))
        \* v is a local name: the new array is never stored back
        v == [i \in 1..n |-> Sub(Scale(self.momentum, h1[ads[i]]), Scale(self.lr, gs[i]))]
    IN  [exc |-> "",
         self |-> [self EXCEPT !.velocity = Some(ads)],
         params |-> [i \in DOMAIN ps |-> IF i <= n THEN Add(ps[i], v[i]) ELSE ps[i]],
         grads |-> gs,
         heap |-> h1,
         used |-> SubSeq(gs, 1, n)]

NesterovMomentum_update(self, ps, gs, h) ==
    LET init == self.velocity = None
        ads == IF init THEN Fresh(h, Len(ps)) ELSE self.velocity[1]
        h1 == IF init THEN Store(h, ads, [i \in DOMAIN ps |-> _zero(shape(ps[i]))]) ELSE h
        n == Min(Len(ads), Min(Len(ps), Len(gs)))
        v == [i \in 1..n |-> Sub(Scale(self.momentum, h1[ads[i]]), Scale(self.lr, gs[i]))]
    IN  [exc |-> "",
         self |-> [self EXCEPT !.velocity = Some(ads)],
         params |-> [i \in DOMAIN ps |->
                        IF i <= n
                        THEN Add(ps[i], Sub(Scale(self.momentum, v[i]), Scale(self.lr, gs[i])))
                        ELSE ps[i]],
         grads |-> gs,
         heap |-> h1,
         used |-> SubSeq(gs, 1, n)]

\* lr * g / (sqrt(c) + epsilon), elementwise; the denominator is in millionths
AdagradStep(lr, g, c, epsilon) ==
    LET num == Scale(lr, g)
        root == np_sqrt(c)
    IN  [i \in DOMAIN g |-> Div(num[i] * Micro, root[i] * Milli + epsilon)]

\* Adagrad.update with c = c + np.power(g, 2): the sum is a new array bound
\* to the local name and the stored array is left alone
Adagrad_update_rebind(self, ps, gs, h) ==
    LET init == self.cache = None
        ads == IF init THEN Fresh(h, Len(gs)) ELSE self.cache[1]
        h1 == IF init THEN Store(h, ads, [i \in DOMAIN gs |-> _zero(shape(gs[i]))]) ELSE h
        n == Min(Len(ads), Min(Len(ps), Len(gs)))
        c == [i \in 1..n |-> Add(h1[ads[i]], np_power2(gs[i]))]
    IN  [exc |-> "",
         self |-> [self EXCEPT !.cache = Some(ads)],
         params |-> [i \in DOMAIN ps |->
                        IF i <= n
                        THEN Sub(ps[i], AdagradStep(self.lr, gs[i], c[i], self.epsilon))
                        ELSE ps[i]],
         grads |-> gs,
         heap |-> h1,
         used |-> SubSeq(gs, 1, n)]

Adagrad_update(self, ps, gs, h) ==
    LET init == self.cache = None
        ads == IF init THEN Fresh(h, Len(gs)) ELSE self.cache[1]
        h1 == IF init THEN Store(h, ads, [i \in DOMAIN gs |-> _zero(shape(gs[i]))]) ELSE h
        n == Min(Len(ads), Min(Len(ps), Len(gs)))
        \* c += np.power(g, 2) writes the stored array in place
        c == [i \in 1..n |-> Add(h1[ads[i]], np_power2(gs[i]))]
    IN  [exc |-> "",
         self |-> [self EXCEPT !.cache = Some(ads)],
         params |-> [i \in DOMAIN ps |->
                        IF i <= n
                        THEN Sub(ps[i], AdagradStep(self.lr, gs[i], c[i], self.epsilon))
                        ELSE ps[i]],
         grads |-> gs,
         heap |-> Store(h1, SubSeq(ads, 1, n), c),
         used |-> SubSeq(gs, 1, n)]

\* method resolution: the class's own update, else Optimizer.update
update(self, ps, gs, h) ==
    CASE self.cls = "SGD" -> SGD_update(self, ps, gs, h)
      [] self.cls = "Momentum" -> Momentum_update(self, ps, gs, h)
      [] self.cls = "NesterovMomentum" -> NesterovMomentum_update(self, ps, gs, h)
      [] self.cls = "Adagrad" -> Adagrad_update(self, ps, gs, h)
      [] OTHER -> Optimizer_update(self, ps, gs, h)

(***************************************************************************)
(* Strings.  A Python str is a tuple of one-character strings, so that     *)
(* equality is spelling and letter case is something a string has.         *)
(***************************************************************************)
s_sgd == <<"s", "g", "d">>
s_SGD == <<"S", "G", "D">>
s_momentum == <<"m", "o", "m", "e", "n", "t", "u", "m">>
s_Momentum == <<"M", "o", "m", "e", "n", "t", "u", "m">>
s_nesterov_momentum == <<"n", "e", "s", "t", "e", "r", "o", "v", "_", "m", "o", "m", "e", "n", "t", "u", "m">>
s_NesterovMomentum == <<"N", "e", "s", "t", "e", "r", "o", "v", "M", "o", "m", "e", "n", "t", "u", "m">>
s_adagrad == <<"a", "d", "a", "g", "r", "a", "d">>
s_Adagrad == <<"A", "d", "a", "g", "r", "a", "d">>
s_rmsprop == <<"r", "m", "s", "p", "r", "o", "p">>
s_RMSprop == <<"R", "M", "S", "p", "r", "o", "p">>
s_adadelta == <<"a", "d", "a", "d", "e", "l", "t", "a">>
s_Adadelta == <<"A", "d", "a", "d", "e", "l", "t", "a">>
s_adam == <<"a", "d", "a", "m">>
s_Adam == <<"A", "d", "a", "m">>
s_adamax == <<"a", "d", "a", "m", "a", "x">>
s_Adamax == <<"A", "d", "a", "m", "a", "x">>
s_not_an_optimizer == <<"n", "o", "t", "_", "a", "n", "_", "o", "p", "t", "i", "m", "i", "z", "e", "r">>

LowerLetters == <<"a", "b", "c", "d", "e", "f", "g", "h", "i", "j", "k", "l", "m", "n", "o", "p", "q", "r", "s", "t", "u", "v", "w", "x", "y", "z">>
UpperLetters == <<"A", "B", "C", "D", "E", "F", "G", "H", "I", "J", "K", "L", "M", "N", "O", "P", "Q", "R", "S", "T", "U", "V", "W", "X", "Y", "Z">>

\* str.upper(), str.lower() and str.capitalize()
UpperChar(c) ==
    IF \E i \in DOMAIN LowerLetters : LowerLetters[i] = c
    THEN UpperLetters[CHOOSE i \in DOMAIN LowerLetters : LowerLetters[i] = c]
    ELSE c
LowerChar(c) ==
    IF \E i \in DOMAIN UpperLetters : UpperLetters[i] = c
    THEN LowerLetters[CHOOSE i \in DOMAIN UpperLetters : UpperLetters[i] = c]
    ELSE c
upper(s) == [i \in DOMAIN s |-> UpperChar(s[i])]
lower(s) == [i \in DOMAIN s |-> LowerChar(s[i])]
capitalize(s) == [i \in DOMAIN s |-> IF i = 1 THEN UpperChar(s[i]) ELSE LowerChar(s[i])]

(***************************************************************************)
(* The registry                                                            *)
(***************************************************************************)
\* An argument of get: the name of its class, its characters when it is a
\* string (an instance of str or of a subclass of str), and the slot of the
\* object when it is an optimizer.
StrArg(s) == [cls |-> "str", str |-> s, ref |-> 0]
InstanceArg(o) == [cls |-> opts[o].cls, str |-> <<>>, ref |-> o]
NoArg == [cls |-> "", str |-> <<>>, ref |-> 0]

isinstance_Optimizer(optimizer) == optimizer.cls \in OptimizerClasses

\* copy.deepcopy(x): a new object with x's attributes, every array x holds
\* copied to a new address
deepcopy(x) ==
    LET held == IF "velocity" \in DOMAIN x THEN x.velocity
                ELSE IF "cache" \in DOMAIN x THEN x.cache
                ELSE None
        ads == IF held = None THEN <<>> ELSE Fresh(heap, Len(held[1]))
        h1 == IF held = None THEN heap
              ELSE Store(heap, ads, [i \in DOMAIN ads |-> heap[held[1][i]]])
        y == IF held = None THEN x
             ELSE IF "velocity" \in DOMAIN x THEN [x EXCEPT !.velocity = Some(ads)]
             ELSE [x EXCEPT !.cache = Some(ads)]
    IN  [obj |-> y, heap |-> h1]

Returned(obj, h) == [exc |-> "", msg |-> "", obj |-> obj, heap |-> h]
Raised(exc, msg) == [exc |-> exc, msg |-> msg, obj |-> NoOpt, heap |-> heap]

\* the string branch of get, with only the lower-case spellings listed
get_name_lower(optimizer) ==
    CASE optimizer.str = s_sgd -> Returned(SGD(DefaultLr, DefaultClip), heap)
      [] optimizer.str = s_momentum ->
            Returned(Momentum(DefaultMomentum, DefaultLr, DefaultClip), heap)
      [] optimizer.str = s_nesterov_momentum ->
            Returned(NesterovMomentum(DefaultMomentum, DefaultLr, DefaultClip), heap)
      [] optimizer.str = s_adagrad -> Returned(Adagrad(DefaultEpsilon, DefaultLr, DefaultClip), heap)
      [] optimizer.str = s_rmsprop -> Returned(RMSprop(DefaultLr, DefaultClip), heap)
      [] optimizer.str = s_adadelta -> Returned(Adadelta(DefaultLr, DefaultClip), heap)
      [] optimizer.str = s_adam -> Returned(Adam(DefaultLr, DefaultClip), heap)
      [] optimizer.str = s_adamax -> Returned(Adamax(DefaultLr, DefaultClip), heap)
      [] OTHER -> Raised("ValueError", "Unknown optimizer name")

\* the string branch of get: the chain of membership tests and its raise
get_name(optimizer) ==
    CASE optimizer.str \in {s_sgd, s_SGD} ->
            Returned(SGD(DefaultLr, DefaultClip), heap)
      [] optimizer.str \in {s_momentum, s_Momentum} ->
            Returned(Momentum(DefaultMomentum, DefaultLr, DefaultClip), heap)
      [] optimizer.str \in {s_nesterov_momentum, s_NesterovMomentum} ->
            Returned(NesterovMomentum(DefaultMomentum, DefaultLr, DefaultClip), heap)
      [] optimizer.str \in {s_adagrad, s_Adagrad} ->
            Returned(Adagrad(DefaultEpsilon, DefaultLr, DefaultClip), heap)
      [] optimizer.str \in {s_rmsprop, s_RMSprop} ->
            Returned(RMSprop(DefaultLr, DefaultClip), heap)
      [] optimizer.str \in {s_adadelta, s_Adadelta} ->
            Returned(Adadelta(DefaultLr, DefaultClip), heap)
      [] optimizer.str \in {s_adam, s_Adam} ->
            Returned(Adam(DefaultLr, DefaultClip), heap)
      [] optimizer.str \in {s_adamax, s_Adamax} ->
            Returned(Adamax(DefaultLr, DefaultClip), heap)
      [] OTHER -> Raised("ValueError", "Unknown optimizer name")

\* get returning the instance's attributes as they are (copy.copy): the copy
\* holds the arrays of the original
get_shallow(optimizer) ==
    IF optimizer.cls = "str" THEN get_name(optimizer)
    ELSE IF isinstance_Optimizer(optimizer) THEN Returned(opts[optimizer.ref], heap)
    ELSE Raised("ValueError", "Unknown type")

\* get testing isinstance(optimizer, str) in place of the class name
get_isinstance_str(optimizer) ==
    IF optimizer.cls \in {"str", "str_"} THEN get_name(optimizer)
    ELSE IF isinstance_Optimizer(optimizer)
    THEN LET c == deepcopy(opts[optimizer.ref]) IN Returned(c.obj, c.heap)
    ELSE Raised("ValueError", "Unknown type")

\* get(optimizer): the exception raised ("" for none) with its message,
\* the object returned, and the heap as the call leaves it
get(optimizer) ==
    IF optimizer.cls = "str" THEN get_name(optimizer)
    ELSE IF isinstance_Optimizer(optimizer)
    THEN LET c == deepcopy(opts[optimizer.ref]) IN Returned(c.obj, c.heap)
    ELSE Raised("ValueError", "Unknown type")

(***************************************************************************)
(* Operations                                                              *)
(***************************************************************************)
Live == {o \in Slots : opts[o] # NoOpt}
\* the slot a newly made object goes to
NewSlot == Cardinality(Live) + 1

LowerNames ==
    {s_sgd, s_momentum, s_nesterov_momentum, s_adagrad, s_rmsprop, s_adadelta, s_adam, s_adamax}
ClassNames ==
    {s_SGD, s_Momentum, s_NesterovMomentum, s_Adagrad, s_RMSprop, s_Adadelta, s_Adam, s_Adamax}
\* the strings a caller passes: the spellings the code lists, other letter
\* cases of them, and a name of no optimizer
Strings ==
    LowerNames \cup ClassNames \cup {upper(s) : s \in LowerNames}
        \cup {capitalize(s) : s \in LowerNames} \cup {s_not_an_optimizer}
\* the arguments of get that are neither a str nor an optimizer: a numpy
\* string (numpy.str_ is a subclass of str), an integer and None
OtherArgs ==
    {[cls |-> "str_", str |-> s_sgd, ref |-> 0],
     [cls |-> "int", str |-> <<>>, ref |-> 0],
     [cls |-> "NoneType", str |-> <<>>, ref |-> 0]}

\* optimizer = get(arg)
Get(arg) ==
    LET r == get(arg) IN
    /\ r.exc = "" => NewSlot \in Slots
    /\ opts' = IF r.exc = "" THEN [opts EXCEPT ![NewSlot] = r.obj] ELSE opts
    /\ heap' = r.heap
    /\ hist' = IF r.exc = "" /\ arg.ref # 0 THEN [hist EXCEPT ![NewSlot] = hist[arg.ref]] ELSE hist
    /\ made' = IF r.exc = "" THEN [made EXCEPT ![NewSlot] = r.obj] ELSE made
    /\ call' = [name |-> "get", o |-> IF r.exc = "" THEN NewSlot ELSE 0, arg |-> arg,
                np |-> 0, exc |-> r.exc, msg |-> r.msg]
    /\ grads' = <<>> /\ gradsIn' = <<>> /\ used' = <<>>
    /\ UNCHANGED <<params, nsteps>>

GetName == \E s \in Strings : Get(StrArg(s))
GetInstance == \E o \in Live : Get(InstanceArg(o))
GetOther == \E a \in OtherArgs : Get(a)

\* opts[o].update(params[o][:np], gs)
Update(o, np, gs) ==
    LET r == update(opts[o], SubSeq(params[o], 1, np), gs, heap) IN
    /\ nsteps < MaxSteps
    /\ nsteps' = nsteps + 1
    /\ opts' = [opts EXCEPT ![o] = r.self]
    /\ heap' = r.heap
    /\ params' = [params EXCEPT ![o] = r.params \o SubSeq(params[o], np + 1, Len(params[o]))]
    /\ grads' = r.grads
    /\ gradsIn' = gs
    /\ used' = r.used
    /\ hist' = [hist EXCEPT ![o] = Append(hist[o], [np |-> np, gs |-> gs])]
    /\ call' = [name |-> "update", o |-> o, arg |-> NoArg, np |-> np, exc |-> r.exc, msg |-> ""]
    /\ UNCHANGED made

Step == \E o \in Live, c \in Calls : Update(o, c.np, c.gs)

InitCommon ==
    /\ made = opts
    /\ heap = [a \in 1..MaxAddr |-> Free]
    /\ params = [o \in Slots |-> InitialParams]
    /\ grads = <<>> /\ gradsIn = <<>> /\ used = <<>>
    /\ hist = [o \in Slots |-> <<>>]
    /\ nsteps = 0
    /\ call = [name |-> "init", o |-> 0, arg |-> NoArg, np |-> 0, exc |-> "", msg |-> ""]

\* one optimizer, built by its constructor, training one model
Init ==
    /\ \E cls \in OptimizerClasses, lr \in LrValues, clip \in ClipValues :
          opts = [o \in Slots |-> IF o = 1 THEN Construct(cls, lr, clip) ELSE NoOpt]
    /\ InitCommon
Next == Step
Spec == Init /\ [][Next]_vars

\* the registry: optimizers are made by get alone
InitGet == opts = [o \in Slots |-> NoOpt] /\ InitCommon
NextGet == GetName \/ GetInstance \/ GetOther
SpecGet == InitGet /\ [][NextGet]_vars

\* one optimizer with the default arguments, copied by get and trained beside
\* its copies
InitCopy ==
    /\ \E cls \in OptimizerClasses :
          opts = [o \in Slots |-> IF o = 1 THEN Construct(cls, DefaultLr, DefaultClip) ELSE NoOpt]
    /\ InitCommon
NextCopy == GetInstance \/ Step
SpecCopy == InitCopy /\ [][NextCopy]_vars


(***************************************************************************)
(* What the claims speak of                                                *)
(***************************************************************************)
HasRule(x) == x.cls \in {"SGD", "Momentum", "NesterovMomentum", "Adagrad"}
KeepsState(x) == x.cls \in {"Momentum", "NesterovMomentum", "Adagrad"}
\* the auxiliary state of an optimizer: None, or Some(list of addresses)
Aux(x) == IF "velocity" \in DOMAIN x THEN x.velocity
          ELSE IF "cache" \in DOMAIN x THEN x.cache
          ELSE None
Addresses(x) == IF Aux(x) = None THEN {} ELSE {Aux(x)[1][i] : i \in DOMAIN Aux(x)[1]}
\* the arrays of the auxiliary state, read through heap h
AuxArrays(x, h) == IF Aux(x) = None THEN <<>> ELSE [i \in DOMAIN Aux(x)[1] |-> h[Aux(x)[1][i]]]
\* x bounded into [-c, c]
Bound(x, c) == IF x < -c THEN -c ELSE IF x > c THEN c ELSE x
\* the calls of a history that pass as many gradients as parameters
Matched(calls) == \A k \in DOMAIN calls : calls[k].np = Len(calls[k].gs)
\* whether a call reaches parameter i
Reaches(c, i) == i <= Min(c.np, Len(c.gs))
Front(calls) == SubSeq(calls, 1, Len(calls) - 1)
Last(calls) == calls[Len(calls)]
IsUpdate == call.name = "update"
IsGet == call.name = "get"

(***************************************************************************)
(* C1  Momentum and NesterovMomentum: after every update call the velocity *)
(* stored for parameter i is momentum * (the velocity stored before) -     *)
(* lr * g_i, starting from zero (so v = -0.1 then -0.19 for g = 1.0,       *)
(* momentum = 0.9, lr = 0.1).                                              *)
(***************************************************************************)
RECURSIVE VelocityClaimed(_, _, _)
VelocityClaimed(x, calls, i) ==
    IF calls = <<>> THEN [j \in DOMAIN InitialParams[i] |-> 0]
    ELSE LET before == VelocityClaimed(x, Front(calls), i)
             g == Last(calls).gs[i]
         IN  IF Reaches(Last(calls), i)
             THEN [j \in DOMAIN before |->
                     Div(x.momentum * before[j], Milli) - Div(x.lr * g[j], Milli)]
             ELSE before

C1_VelocityRecurrence ==
    \A o \in Live :
        (opts[o].cls \in {"Momentum", "NesterovMomentum"} /\ opts[o].velocity # None
            /\ Matched(hist[o]))
        => \A i \in DOMAIN opts[o].velocity[1] :
              heap[opts[o].velocity[1][i]] = VelocityClaimed(opts[o], hist[o], i)

(***************************************************************************)
(* C2  An update call of SGD, Momentum, NesterovMomentum or Adagrad with   *)
(* len(params) # len(grads) fails with ShapeMismatch and changes nothing:  *)
(* no parameter and no auxiliary state.                                    *)
(***************************************************************************)
C2_MismatchAllOrNothing ==
    [][(nsteps' = nsteps + 1 /\ HasRule(opts[call'.o]) /\ call'.np # Len(gradsIn'))
        => (call'.exc = "ShapeMismatch" /\ params' = params /\ opts' = opts /\ heap' = heap)]_vars

(***************************************************************************)
(* C3  With clip = c > 0 every element of a gradient that enters the       *)
(* update formula of any optimizer has magnitude <= c; with clip <= 0 the  *)
(* gradients enter unmodified.                                             *)
(***************************************************************************)
C3_ClipBoundsGradient ==
    (IsUpdate /\ call.exc = "") =>
        LET c == opts[call.o].clip IN
        \A i \in DOMAIN used : \A j \in DOMAIN used[i] :
            IF c > 0 THEN Abs(used[i][j]) <= c ELSE used[i][j] = gradsIn[i][j]

(***************************************************************************)
(* C8  SGD: after any sequence of update calls each parameter equals its   *)
(* initial value minus lr times the sum of the clipped gradients it was    *)
(* given; the optimizer holds no auxiliary buffer and its lr and clip are  *)
(* as constructed (p = 1.0, g = 2.0, lr = 0.1 gives p = 0.8).              *)
(***************************************************************************)
RECURSIVE ClippedSum(_, _, _)
ClippedSum(calls, i, c) ==
    IF calls = <<>> THEN [j \in DOMAIN InitialParams[i] |-> 0]
    ELSE LET before == ClippedSum(Front(calls), i, c)
             g == Last(calls).gs[i]
         IN  IF Reaches(Last(calls), i)
             THEN [j \in DOMAIN before |-> before[j] + (IF c > 0 THEN Bound(g[j], c) ELSE g[j])]
             ELSE before

C8_SGDRule ==
    \A o \in Live :
        opts[o].cls = "SGD" =>
            /\ \A i \in DOMAIN params[o] : \A j \in DOMAIN params[o][i] :
                  params[o][i][j] * Milli =
                      InitialParams[i][j] * Milli - opts[o].lr * ClippedSum(hist[o], i, opts[o].clip)[j]
            /\ DOMAIN opts[o] = {"cls", "lr", "clip"}
            /\ opts[o] = made[o]
            /\ \A a \in DOMAIN heap : heap[a] = Free

C8_Witness ==
    \E o \in Live :
        /\ opts[o].cls = "SGD" /\ opts[o].lr = 100 /\ opts[o].clip <= 0
        /\ hist[o] = << [np |-> 2, gs |-> << <<2000>>, <<1000>> >>] >>
        /\ params[o][1] = <<800>>

(***************************************************************************)
(* C9  No update call, and no call of npdl_clip, changes the caller's      *)
(* gradient arrays, whatever the clip threshold: after the call every      *)
(* element of grads is what it was before, and the parameters of no other  *)
(* model are written.                                                      *)
(***************************************************************************)
C9_GradsUntouched ==
    IsUpdate =>
        /\ grads = gradsIn
        /\ \A o \in Slots : hist[o] = <<>> => params[o] = InitialParams

C9_Witness ==
    /\ IsUpdate /\ call.exc = ""
    /\ opts[call.o].cls = "SGD" /\ opts[call.o].clip > 0
    /\ \E i \in DOMAIN used : used[i] # gradsIn[i]
    /\ grads = gradsIn


(***************************************************************************)
(* C7  Adagrad: an update call leaves in the stored accumulator c_i its    *)
(* value before the call plus g_i squared, starting from zero; no element  *)
(* of c ever decreases, and the step scale lr / (sqrt(c) + epsilon) never  *)
(* increases from one call to the next.                                    *)
(***************************************************************************)
StepScale(lr, c, epsilon) == Div(lr * Micro, Isqrt(c * Milli) * Milli + epsilon)

C7_AdagradAccumulator ==
    [][(nsteps' = nsteps + 1 /\ opts[call'.o].cls = "Adagrad") =>
        LET x == opts[call'.o]
            ads == opts'[call'.o].cache[1]
        IN  \A i \in DOMAIN ads : \A j \in DOMAIN heap'[ads[i]] :
                LET before == IF x.cache = None THEN 0 ELSE heap[ads[i]][j]
                    after == heap'[ads[i]][j]
                IN  /\ after = IF i <= Min(call'.np, Len(gradsIn'))
                               THEN before + Div(gradsIn'[i][j] * gradsIn'[i][j], Milli)
                               ELSE before
                    /\ after >= before
                    /\ StepScale(x.lr, after, x.epsilon) <= StepScale(x.lr, before, x.epsilon)]_vars

C7_Witness ==
    \E o \in Live :
        /\ opts[o].cls = "Adagrad" /\ opts[o].cache # None
        /\ hist[o] = << [np |-> 2, gs |-> << <<1000>>, <<-2000>> >>],
                        [np |-> 2, gs |-> << <<1000>>, <<-2000>> >>] >>
        /\ heap[opts[o].cache[1][1]] = <<2000>>
        /\ heap[opts[o].cache[1][2]] = <<8000>>

(***************************************************************************)
(* C10  Momentum, NesterovMomentum and Adagrad: the auxiliary state is     *)
(* uninitialised until the first update call; that call creates exactly    *)
(* one array per parameter; after it the state is never created again and  *)
(* the number of arrays it holds never changes.                            *)
(***************************************************************************)
C10_Lifecycle ==
    [][\A o \in Slots :
        (opts'[o] # NoOpt /\ KeepsState(opts'[o])) =>
            /\ (Aux(opts'[o]) = None) <=> (hist'[o] = <<>>)
            /\ (opts[o] # NoOpt /\ Aux(opts[o]) = None /\ Aux(opts'[o]) # None)
                  => Len(Aux(opts'[o])[1]) = call'.np
            /\ (opts[o] # NoOpt /\ Aux(opts[o]) # None) => Aux(opts'[o]) = Aux(opts[o])]_vars

(***************************************************************************)
(* C4  get(instance) returns a distinct optimizer whose hyperparameters    *)
(* and auxiliary arrays equal the original's at the time of the call and   *)
(* which shares no array with any other optimizer; an update call on one   *)
(* optimizer changes neither the attributes nor the auxiliary arrays of    *)
(* any other.                                                              *)
(***************************************************************************)
Hyper(x) == [a \in DOMAIN x \ {"velocity", "cache"} |-> x[a]]

C4_CopyIndependent ==
    [][/\ (call'.name = "get" /\ call'.exc = "" /\ call'.arg.ref # 0 /\ nsteps' = nsteps) =>
           LET src == call'.arg.ref
               dst == call'.o
           IN  /\ dst # src /\ opts[dst] = NoOpt
               /\ Hyper(opts'[dst]) = Hyper(opts[src])
               /\ (Aux(opts'[dst]) = None) <=> (Aux(opts[src]) = None)
               /\ AuxArrays(opts'[dst], heap') = AuxArrays(opts[src], heap)
               /\ \A q \in Slots \ {dst} :
                     /\ opts'[q] = opts[q]
                     /\ opts[q] # NoOpt =>
                           /\ AuxArrays(opts[q], heap') = AuxArrays(opts[q], heap)
                           /\ Addresses(opts'[dst]) \cap Addresses(opts[q]) = {}
       /\ (nsteps' = nsteps + 1) =>
           \A q \in Live \ {call'.o} :
               /\ opts'[q] = opts[q]
               /\ AuxArrays(opts[q], heap') = AuxArrays(opts[q], heap)]_vars

\* a copy taken after its original's first update, then updated alone
C4_Witness ==
    \E o \in Live, q \in Live :
        /\ o # q /\ opts[o].cls = "Adagrad" /\ opts[q].cls = "Adagrad"
        /\ Len(hist[o]) = 1 /\ Len(hist[q]) = 2 /\ hist[q][1] = hist[o][1]
        /\ IsUpdate /\ call.o = q
        /\ AuxArrays(opts[o], heap) # AuxArrays(opts[q], heap)
        /\ Addresses(opts[o]) \cap Addresses(opts[q]) = {}

(***************************************************************************)
(* C5  get(name).  As claimed: every string equal to one of the eight      *)
(* names ignoring letter case yields the optimizer of that name with the   *)
(* default arguments.  As the code has it: the sixteen spellings listed    *)
(* (the lower-case name and the class name of each optimizer), matched     *)
(* exactly, each yield a new optimizer of that class with the default      *)
(* arguments and no auxiliary state, and nothing else is touched.          *)
(***************************************************************************)
NameTable ==
    << <<s_sgd, s_SGD, "SGD">>,
       <<s_momentum, s_Momentum, "Momentum">>,
       <<s_nesterov_momentum, s_NesterovMomentum, "NesterovMomentum">>,
       <<s_adagrad, s_Adagrad, "Adagrad">>,
       <<s_rmsprop, s_RMSprop, "RMSprop">>,
       <<s_adadelta, s_Adadelta, "Adadelta">>,
       <<s_adam, s_Adam, "Adam">>,
       <<s_adamax, s_Adamax, "Adamax">> >>
Spellings == {NameTable[k][1] : k \in DOMAIN NameTable} \cup {NameTable[k][2] : k \in DOMAIN NameTable}
SpelledClass(s) ==
    NameTable[CHOOSE k \in DOMAIN NameTable : s \in {NameTable[k][1], NameTable[k][2]}][3]
NamedClass(s) == NameTable[CHOOSE k \in DOMAIN NameTable : lower(s) = NameTable[k][1]][3]
Defaults(cls) == Construct(cls, DefaultLr, DefaultClip)

\* C5 as claimed: any letter case of a name is matched
C5_CaseInsensitive ==
    (IsGet /\ call.arg.cls = "str"
        /\ \E k \in DOMAIN NameTable : lower(call.arg.str) = NameTable[k][1])
    => (call.exc = "" /\ call.o \in Live /\ opts[call.o] = Defaults(NamedClass(call.arg.str)))

\* C5 as amended: each of the sixteen listed spellings, matched exactly, yields
\* a new optimizer of its class with the default arguments and no state
C5_ExactSpellings ==
    [][(call'.name = "get" /\ nsteps' = nsteps /\ call'.arg.cls = "str"
            /\ call'.arg.str \in Spellings)
        => /\ call'.exc = ""
           /\ call'.o \in Slots /\ opts[call'.o] = NoOpt
           /\ opts'[call'.o] = Defaults(SpelledClass(call'.arg.str))
           /\ Aux(opts'[call'.o]) = None
           /\ \A q \in Slots \ {call'.o} : opts'[q] = opts[q]
           /\ heap' = heap]_vars

C5_Witness ==
    /\ IsGet /\ call.arg = StrArg(s_Adam) /\ call.exc = ""
    /\ opts[call.o] = [cls |-> "Adam", lr |-> 1, clip |-> -1000]
    /\ \E q \in Live : q # call.o /\ opts[q].cls = "Adam"

(***************************************************************************)
(* C6  Failures of get.  As claimed: a string that is no recognized name   *)
(* fails with one kind of error, a value that is neither a string nor an   *)
(* optimizer fails with another kind, and every other input succeeds.  As  *)
(* the code has it: both failures are a ValueError, told apart by the      *)
(* message; what counts as a string is a value whose class is named str.   *)
(***************************************************************************)
IsString(a) == a.cls \in {"str", "str_"}
IsOptimizer(a) == a.cls \in OptimizerClasses

\* C6 as claimed: two failure cases with two distinct kinds of error, every
\* other input succeeds
C6_TwoErrorKinds ==
    IsGet =>
        CASE IsString(call.arg) /\ call.arg.str \notin Spellings ->
                /\ call.exc # ""
                /\ \A b \in OtherArgs : ~IsString(b) => get(b).exc # call.exc
          [] ~IsString(call.arg) /\ ~IsOptimizer(call.arg) -> call.exc # ""
          [] OTHER -> call.exc = ""

\* C6 as amended: two failure cases, both ValueError, told apart by message;
\* a string is a value whose class is named str
C6_ValueErrors ==
    IsGet =>
        CASE call.arg.cls = "str" /\ call.arg.str \notin Spellings ->
                call.exc = "ValueError" /\ call.msg = "Unknown optimizer name" /\ call.o = 0
          [] call.arg.cls # "str" /\ ~IsOptimizer(call.arg) ->
                call.exc = "ValueError" /\ call.msg = "Unknown type" /\ call.o = 0
          [] OTHER -> call.exc = "" /\ call.o \in Live

C6_Witness ==
    /\ IsGet /\ call.arg.cls = "str_" /\ call.arg.str = s_sgd
    /\ call.exc = "ValueError" /\ call.msg = "Unknown type"
    /\ Live # {}

====
